---- MODULE Spec2Model ----
(***************************************************************************)
(* Portfolio ledger of TradingSimSuite: the FastAPI backend (buy, sell,    *)
(* portfolio, portfolio-value, historical-data) over the module globals    *)
(* start_capital / portfolio, the ledger file portfolio.json written by    *)
(* portfolio_manager.save_portfolio and the per-ticker CSV files under     *)
(* data/.  Money is counted in whole price units; a ticker is a sequence   *)
(* of one-character strings.                                               *)
(***************************************************************************)
EXTENDS Integers, Sequences, FiniteSets, TLC

VARIABLES start_capital, portfolio, file, cache, last, calls, threads

vars == <<start_capital, portfolio, file, cache, last, calls, threads>>

(* ------------------------------ bounds -------------------------------- *)

\* number of requests served in one run of the backend
MaxCalls == 3

\* largest quantity parameter sent to /buy and /sell
MaxQty == 2

\* the endpoints take any int: negative, zero and positive quantities
Quantities == (0 - 1)..MaxQty

\* close prices seen in the market data
Prices == {400000, 700000}

\* tickers as the clients send them
Tickers == {<<"A">>, <<"a">>, <<"B">>}

(* ------------------------- program constants -------------------------- *)

DefaultCapital == 1000000

EmptyPortfolio == [t \in {} |-> 0]

(* -------------------------- str.upper() ------------------------------- *)

UpperChar(c) ==
    CASE c = "a" -> "A"
      [] c = "b" -> "B"
      [] OTHER -> c

Upper(s) == [i \in 1..Len(s) |-> UpperChar(s[i])]

(* ----------------------- market data (yfinance) ----------------------- *)

\* a Close column as yf.download returns it: empty, or bars in date order
QuoteSeries == {<<>>} \cup ({<<p, q>> : p, q \in Prices} \ {<<p, p>> : p \in Prices})

IsEmpty(data) == Len(data) = 0

\* data["Close"].iloc[-1]
LastClose(data) == data[Len(data)]

(* --------------------------- dict helpers ----------------------------- *)

\* portfolio.get(ticker, 0)
Get(port, t) == IF t \in DOMAIN port THEN port[t] ELSE 0

\* portfolio[ticker] = v
SetKey(port, t, v) == [k \in (DOMAIN port) \cup {t} |-> IF k = t THEN v ELSE port[k]]

\* del portfolio[ticker]
DelKey(port, t) == [k \in (DOMAIN port) \ {t} |-> port[k]]

(* --------------------------- ledger file ------------------------------ *)

\* the JSON object {"start_capital": cap, "portfolio": port}
LedgerRecord(cap, port) ==
    [kind |-> "object", hasCap |-> TRUE, cap |-> cap, hasPort |-> TRUE, port |-> port]

\* no portfolio.json
MissingFile ==
    [kind |-> "missing", hasCap |-> FALSE, cap |-> 0, hasPort |-> FALSE, port |-> EmptyPortfolio]

\* portfolio.json holds text json.load rejects (empty, truncated, not JSON)
MalformedFile ==
    [kind |-> "malformed", hasCap |-> FALSE, cap |-> 0, hasPort |-> FALSE, port |-> EmptyPortfolio]

\* portfolio.json holds JSON that is not an object (a list, a number)
NonObjectFile ==
    [kind |-> "nonobject", hasCap |-> FALSE, cap |-> 0, hasPort |-> FALSE, port |-> EmptyPortfolio]

\* outcome of open(..., "w") + json.dump: written, open raised (file kept),
\* or the write raised after open truncated the file
SaveOutcomes == {"ok", "open_failed", "write_failed"}

\* the record is written with a capital of 0 instead of the argument
SavePortfolio_NoCapital(cap, port, so, f) ==
    CASE so = "ok" -> LedgerRecord(0, port)
      [] so = "open_failed" -> f
      [] OTHER -> MalformedFile

\* save_portfolio: the file after the call
SavePortfolio(cap, port, so, f) ==
    CASE so = "ok" -> LedgerRecord(cap, port)
      [] so = "open_failed" -> f
      [] OTHER -> MalformedFile

\* the fields are read with "or default": a stored 0 or {} counts as absent
LoadPortfolio_FalsyDefault(f, so) ==
    CASE f.kind \in {"missing", "malformed"} ->
           [raised |-> so # "ok", start_capital |-> DefaultCapital,
            portfolio |-> EmptyPortfolio,
            file |-> SavePortfolio(DefaultCapital, EmptyPortfolio, so, f)]
      [] f.kind = "nonobject" ->
           [raised |-> TRUE, start_capital |-> DefaultCapital,
            portfolio |-> EmptyPortfolio, file |-> f]
      [] OTHER ->
           [raised |-> FALSE,
            start_capital |-> IF f.hasCap /\ f.cap # 0 THEN f.cap ELSE DefaultCapital,
            portfolio |-> IF f.hasPort THEN f.port ELSE EmptyPortfolio,
            file |-> f]

\* load_portfolio: the ledger returned and the file left behind
LoadPortfolio(f, so) ==
    CASE f.kind = "missing" ->
           [raised |-> so # "ok", start_capital |-> DefaultCapital,
            portfolio |-> EmptyPortfolio,
            file |-> SavePortfolio(DefaultCapital, EmptyPortfolio, so, f)]
      [] f.kind = "malformed" ->
           [raised |-> so # "ok", start_capital |-> DefaultCapital,
            portfolio |-> EmptyPortfolio,
            file |-> SavePortfolio(DefaultCapital, EmptyPortfolio, so, f)]
      [] f.kind = "nonobject" ->
           [raised |-> TRUE, start_capital |-> DefaultCapital,
            portfolio |-> EmptyPortfolio, file |-> f]
      [] OTHER ->
           [raised |-> FALSE,
            start_capital |-> IF f.hasCap THEN f.cap ELSE DefaultCapital,
            portfolio |-> IF f.hasPort THEN f.port ELSE EmptyPortfolio,
            file |-> f]

\* fetch_portfolio_data: data/<ticker>.csv is written for every key of the
\* portfolio that has no file yet and whose download is not empty
FetchPortfolioData(port, c, q) ==
    [k \in (DOMAIN c) \cup {t \in DOMAIN port : ~IsEmpty(q[t])} |->
        IF k \in DOMAIN c THEN c[k] ELSE q[k]]

(* ----------------------------- valuation ------------------------------ *)

\* the closes are added up without the held quantities
RECURSIVE SumValue_NoQuantity(_, _, _)
SumValue_NoQuantity(keys, port, q) ==
    IF keys = {} THEN 0
    ELSE LET k == CHOOSE x \in keys : TRUE
         IN  LastClose(q[k]) + SumValue_NoQuantity(keys \ {k}, port, q)

\* total_value = 0; for ticker, quantity in portfolio.items(): total_value += ...
RECURSIVE SumValue(_, _, _)
SumValue(keys, port, q) ==
    IF keys = {} THEN 0
    ELSE LET k == CHOOSE x \in keys : TRUE
         IN  LastClose(q[k]) * port[k] + SumValue(keys \ {k}, port, q)

\* a ticker with an empty download is skipped instead of raising
GetCurrentPortfolioValue_BestEffort(port, q) ==
    [ok |-> TRUE,
     total |-> SumValue({k \in DOMAIN port : ~IsEmpty(q[k])}, port, q)]

\* get_current_portfolio_value: one download per held ticker, 404 on an
\* empty one, else the sum of close * quantity
GetCurrentPortfolioValue(port, q) ==
    IF \E k \in DOMAIN port : IsEmpty(q[k])
    THEN [ok |-> FALSE, total |-> 0]
    ELSE [ok |-> TRUE, total |-> SumValue(DOMAIN port, port, q)]

(* ------------------------------ state --------------------------------- *)

NoCache == [t \in {} |-> <<>>]

\* no request handler is running in a worker thread
NoThreads == [i \in {} |-> 0]

\* the ledger body of a response that carries none
NoBody == [portfolio |-> EmptyPortfolio, remaining_capital |-> 0]

\* what the last request was and what the caller got back; data is the series
\* the handler read for the traded ticker, quotes the downloads of a valuation,
\* body the ledger GET /portfolio returned
Outcome(op, key, qty, status, detail, quoted, total) ==
    [op |-> op, key |-> key, quantity |-> qty, status |-> status, detail |-> detail,
     quoted |-> quoted, total |-> total, data |-> <<>>, quotes |-> NoCache,
     body |-> NoBody,
     preCap |-> start_capital, prePort |-> portfolio, preFile |-> file, preCache |-> cache]

WithData(out, data) == [out EXCEPT !.data = data]

WithQuotes(out, q) == [out EXCEPT !.quotes = q]

WithBody(out, b) == [out EXCEPT !.body = b]

InitFrom(f0) ==
    LET l == LoadPortfolio(f0, "ok")
    IN  /\ ~l.raised
        /\ start_capital = l.start_capital
        /\ portfolio = l.portfolio
        /\ file = l.file
        /\ \E q \in [DOMAIN l.portfolio -> QuoteSeries] :
              cache = FetchPortfolioData(l.portfolio, NoCache, q)
        /\ calls = 0
        /\ threads = NoThreads
        /\ last = [op |-> "start", key |-> <<>>, quantity |-> 0, status |-> 200,
                   detail |-> "", quoted |-> FALSE, total |-> 0,
                   data |-> <<>>, quotes |-> NoCache, body |-> NoBody,
                   preCap |-> l.start_capital, prePort |-> l.portfolio,
                   preFile |-> l.file, preCache |-> NoCache]

\* first run: no portfolio.json, the default ledger is created and saved
Init == InitFrom(MissingFile)

(* ------------------------- steps of /buy ------------------------------ *)

\* the existence check of the CSV file left out
HistoryMissing_Never(t, c) == FALSE

\* not os.path.exists(f"data/{ticker}.csv")
HistoryMissing(t, c) == t \notin DOMAIN c

\* the funds check with the quantity left out of the cost
InsufficientFunds_PriceOnly(price, qty, cap) == price > cap

\* total_cost > start_capital, total_cost = current_price * quantity
InsufficientFunds(price, qty, cap) == price * qty > cap

\* start_capital -= total_cost
BuyCapital(cap, price, qty) == cap - price * qty

\* the bought quantity overwrites the entry instead of adding to it
BuyHoldings_Overwrite(port, t, qty) == SetKey(port, t, qty)

\* portfolio[ticker] = portfolio.get(ticker, 0) + quantity
BuyHoldings(port, t, qty) == SetKey(port, t, Get(port, t) + qty)

(* ------------------------- steps of /sell ----------------------------- *)

\* the share check with the quantity comparison left out
InsufficientShares_KeyOnly(port, t, qty) == t \notin DOMAIN port

\* ticker not in portfolio or portfolio[ticker] < quantity
InsufficientShares(port, t, qty) == t \notin DOMAIN port \/ port[t] < qty

\* the revenue of one share credited whatever the quantity
SellCapital_OneShare(cap, price, qty) == cap + price

\* start_capital += total_revenue, total_revenue = current_price * quantity
SellCapital(cap, price, qty) == cap + price * qty

\* the entry is kept when it reaches zero
SellHoldings_KeepZero(port, t, qty) == SetKey(port, t, port[t] - qty)

\* portfolio[ticker] -= quantity; if portfolio[ticker] == 0: del portfolio[ticker]
SellHoldings(port, t, qty) ==
    IF port[t] - qty = 0 THEN DelKey(port, t) ELSE SetKey(port, t, port[t] - qty)

(* ----------------------------- handlers ------------------------------- *)

Reject(op, t, qty, status, detail, quoted) ==
    /\ last' = Outcome(op, t, qty, status, detail, quoted, 0)
    /\ UNCHANGED <<start_capital, portfolio, file, cache, threads>>

\* the tail shared by /buy and /sell: assign the globals, save_portfolio,
\* get_current_portfolio_value, build the response
Commit(op, t, qty, cap2, port2, quoted, data) ==
    /\ start_capital' = cap2
    /\ portfolio' = port2
    /\ UNCHANGED <<cache, threads>>
    /\ \E so \in SaveOutcomes :
          /\ file' = SavePortfolio(cap2, port2, so, file)
          /\ IF so # "ok"
             THEN last' = WithData(Outcome(op, t, qty, 500, "Internal Server Error",
                                           quoted, 0), data)
             ELSE \E q \in [DOMAIN port2 -> QuoteSeries] :
                    LET v == GetCurrentPortfolioValue(port2, q)
                    IN  IF v.ok
                        THEN last' = WithData(Outcome(op, t, qty, 200, "",
                                              quoted \/ DOMAIN port2 # {}, v.total), data)
                        ELSE last' = WithData(Outcome(op, t, qty, 404,
                                              "Ticker not found in valuation", TRUE, 0), data)

\* POST /buy
Buy(ticker, quantity) ==
    LET t == Upper(ticker)
    IN  /\ calls < MaxCalls
        /\ calls' = calls + 1
        /\ IF HistoryMissing(t, cache)
           THEN Reject("buy", t, quantity, 400, "Please fetch the historical data", FALSE)
           ELSE IF t \notin DOMAIN cache  \* pd.read_csv raises FileNotFoundError
           THEN Reject("buy", t, quantity, 500, "Internal Server Error", FALSE)
           ELSE IF IsEmpty(cache[t])
           THEN Reject("buy", t, quantity, 404, "Ticker not found", FALSE)
           ELSE IF InsufficientFunds(LastClose(cache[t]), quantity, start_capital)
           THEN Reject("buy", t, quantity, 400, "Insufficient funds", FALSE)
           ELSE Commit("buy", t, quantity,
                       BuyCapital(start_capital, LastClose(cache[t]), quantity),
                       BuyHoldings(portfolio, t, quantity), FALSE, cache[t])

\* POST /sell
Sell(ticker, quantity) ==
    LET t == Upper(ticker)
    IN  /\ calls < MaxCalls
        /\ calls' = calls + 1
        /\ IF InsufficientShares(portfolio, t, quantity)
           THEN Reject("sell", t, quantity, 400, "Insufficient shares", FALSE)
           ELSE IF t \notin DOMAIN portfolio  \* portfolio[ticker] raises KeyError
           THEN Reject("sell", t, quantity, 500, "Internal Server Error", FALSE)
           ELSE \E data \in QuoteSeries :
                  IF IsEmpty(data)  \* iloc[-1] raises IndexError
                  THEN Reject("sell", t, quantity, 500, "Internal Server Error", TRUE)
                  ELSE Commit("sell", t, quantity,
                              SellCapital(start_capital, LastClose(data), quantity),
                              SellHoldings(portfolio, t, quantity), TRUE, data)

\* the body with the capital the process started with
PortfolioBody_StartCapital(cap, port) ==
    [portfolio |-> port, remaining_capital |-> DefaultCapital]

\* {"portfolio": portfolio, "remaining_capital": start_capital}
PortfolioBody(cap, port) == [portfolio |-> port, remaining_capital |-> cap]

\* GET /portfolio
GetPortfolio ==
    /\ calls < MaxCalls
    /\ calls' = calls + 1
    /\ last' = WithBody(Outcome("portfolio", <<>>, 0, 200, "", FALSE, 0),
                        PortfolioBody(start_capital, portfolio))
    /\ UNCHANGED <<start_capital, portfolio, file, cache, threads>>

\* GET /portfolio-value
GetPortfolioValue ==
    /\ calls < MaxCalls
    /\ calls' = calls + 1
    /\ \E q \in [DOMAIN portfolio -> QuoteSeries] :
          LET v == GetCurrentPortfolioValue(portfolio, q)
          IN  /\ last' = WithQuotes(Outcome("portfolio-value", <<>>, 0,
                                 IF v.ok THEN 200 ELSE 500,
                                 IF v.ok THEN "" ELSE "404: Ticker not found in valuation",
                                 DOMAIN portfolio # {}, v.total), q)
              /\ UNCHANGED <<start_capital, portfolio, file, cache, threads>>

\* GET /historical-data/{ticker}
GetHistoricalData(ticker, data) ==
    LET t == Upper(ticker)
    IN  /\ calls < MaxCalls
        /\ calls' = calls + 1
        /\ IF IsEmpty(data)
           THEN Reject("historical-data", t, 0, 500, "404: No data found for ticker", TRUE)
           ELSE /\ cache' = SetKey(cache, t, data)
                /\ last' = WithData(Outcome("historical-data", t, 0, 200, "", TRUE, 0), data)
                /\ UNCHANGED <<start_capital, portfolio, file, threads>>

BuyStep == \E ticker \in Tickers, quantity \in Quantities : Buy(ticker, quantity)

SellStep == \E ticker \in Tickers, quantity \in Quantities : Sell(ticker, quantity)

HistoryStep == \E ticker \in Tickers, data \in QuoteSeries : GetHistoricalData(ticker, data)

Next == BuyStep \/ SellStep \/ GetPortfolio \/ GetPortfolioValue \/ HistoryStep

Spec == Init /\ [][Next]_vars

(* ---------------- start-up from an existing portfolio.json ------------- *)

\* ledger files the backend may find at start-up
StartFiles ==
    { MissingFile,
      LedgerRecord(DefaultCapital, [t \in {<<"B">>} |-> 1]),
      LedgerRecord(DefaultCapital, [t \in {<<"a">>} |-> 1]) }

InitLoad == \E f0 \in StartFiles : InitFrom(f0)

SpecLoad == InitLoad /\ [][Next]_vars

(* -------------- the ledger store on its own: save and load ------------ *)

StoreCaps == {0, 400000, DefaultCapital}

StorePorts ==
    { EmptyPortfolio,
      [t \in {<<"A">>} |-> 1],
      [t \in {<<"A">>, <<"B">>} |-> IF t = <<"A">> THEN 2 ELSE 1] }

\* well-formed ledgers handed to save_portfolio
WellFormedLedgers == [cap : StoreCaps, port : StorePorts]

\* contents of portfolio.json a starting process may find
StoreFiles ==
    {MissingFile, MalformedFile, NonObjectFile}
      \cup {LedgerRecord(l.cap, l.port) : l \in WellFormedLedgers}
      \cup {[kind |-> "object", hasCap |-> FALSE, cap |-> 0, hasPort |-> TRUE, port |-> p] :
               p \in StorePorts}
      \cup {[kind |-> "object", hasCap |-> TRUE, cap |-> c, hasPort |-> FALSE,
             port |-> EmptyPortfolio] : c \in StoreCaps}
      \cup {[kind |-> "object", hasCap |-> FALSE, cap |-> 0, hasPort |-> FALSE,
             port |-> EmptyPortfolio]}

\* the save_portfolio call under way: where it stands, the ledger it writes
\* and the file it found
Saver(pc, cap, port, old) == [pc |-> pc, cap |-> cap, port |-> port, old |-> old]

StoreOutcome(op, status, io) ==
    [op |-> op, status |-> status, io |-> io,
     prev |-> last.op, prevStatus |-> last.status, prevPreFile |-> last.preFile,
     preCap |-> start_capital, prePort |-> portfolio, preFile |-> file]

InitStore ==
    /\ file \in StoreFiles
    /\ start_capital = DefaultCapital
    /\ portfolio = EmptyPortfolio
    /\ cache = NoCache
    /\ calls = 0
    /\ threads = Saver("idle", 0, EmptyPortfolio, MissingFile)
    /\ last = [op |-> "none", status |-> 200, io |-> "ok",
               prev |-> "none", prevStatus |-> 200, prevPreFile |-> file,
               preCap |-> DefaultCapital, prePort |-> EmptyPortfolio, preFile |-> file]

\* save_portfolio, first half: open("portfolio.json", "w") truncates the file
StoreSaveOpen(l) ==
    /\ calls < MaxCalls
    /\ threads.pc # "opened"
    /\ calls' = calls + 1
    /\ file' = MalformedFile
    /\ threads' = Saver("opened", l.cap, l.port, file)
    /\ last' = StoreOutcome("save-open", 200, "ok")
    /\ UNCHANGED <<start_capital, portfolio, cache>>

\* save_portfolio, second half: json.dump writes the record, the file is closed
StoreSaveWrite ==
    /\ threads.pc = "opened"
    /\ file' = LedgerRecord(threads.cap, threads.port)
    /\ threads' = [threads EXCEPT !.pc = "written"]
    /\ last' = StoreOutcome("save-write", 200, "ok")
    /\ UNCHANGED <<start_capital, portfolio, cache, calls>>

\* the process stops between the truncation and the write
StoreStop ==
    /\ threads.pc = "opened"
    /\ threads' = [threads EXCEPT !.pc = "stopped"]
    /\ last' = StoreOutcome("stop", 200, "ok")
    /\ UNCHANGED <<start_capital, portfolio, file, cache, calls>>

\* start_capital, portfolio = load_portfolio() of a (re)started process
StoreLoad ==
    /\ calls < MaxCalls
    /\ threads.pc # "opened"
    /\ calls' = calls + 1
    /\ \E so \in SaveOutcomes :
          LET l == LoadPortfolio(file, so)
          IN  /\ file' = l.file
              /\ start_capital' = IF l.raised THEN start_capital ELSE l.start_capital
              /\ portfolio' = IF l.raised THEN portfolio ELSE l.portfolio
              /\ last' = StoreOutcome("load", IF l.raised THEN 500 ELSE 200,
                                      IF file.kind \in {"missing", "malformed"}
                                      THEN so ELSE "ok")
    /\ UNCHANGED <<cache, threads>>

NextStore ==
    \/ \E l \in WellFormedLedgers : StoreSaveOpen(l)
    \/ StoreSaveWrite
    \/ StoreStop
    \/ StoreLoad

SpecStore == InitStore /\ [][NextStore]_vars

(* ------------- two requests in the worker threads of the app ---------- *)

\* buy_stock and sell_stock are plain "def" endpoints: the server runs each
\* request in a worker thread.  A handler is cut where it blocks on I/O
\* (pd.read_csv, yf.download, the file write); the statements between two
\* such calls are taken as one step.  Saves succeed here.

ThreadIds == {1, 2}

\* requests the two clients send
Requests == [op : {"buy", "sell"}, key : {<<"A">>}, qty : 1..MaxQty]

Handler(r) ==
    [op |-> r.op, key |-> r.key, qty |-> r.qty, pc |-> "start",
     quoted |-> FALSE, data |-> <<>>, status |-> 0]

\* the ledger and the CSV files the backend holds when the requests arrive
ConcPorts == {[t \in {<<"A">>} |-> n] : n \in 1..2}

ConcCache == [t \in {<<"A">>} |-> <<400000, 700000>>]

InitConc ==
    /\ start_capital = DefaultCapital
    /\ portfolio \in ConcPorts
    /\ file = LedgerRecord(start_capital, portfolio)
    /\ cache = ConcCache
    /\ calls = 0
    /\ threads \in {[i \in ThreadIds |-> Handler(f[i])] : f \in [ThreadIds -> Requests]}
    /\ last = [op |-> "concurrent", preCap |-> start_capital, prePort |-> portfolio,
               preFile |-> file]

Finish(i, status) == [threads EXCEPT ![i].pc = "done", ![i].status = status]

\* buy_stock up to pd.read_csv
ConcBuyRead(i) ==
    /\ threads[i].op = "buy" /\ threads[i].pc = "start"
    /\ IF HistoryMissing(threads[i].key, cache)
       THEN threads' = Finish(i, 400)
       ELSE threads' = [threads EXCEPT ![i].pc = "apply", ![i].data = cache[threads[i].key]]
    /\ UNCHANGED <<start_capital, portfolio, file, cache, calls, last>>

\* buy_stock from the funds check to the call of save_portfolio
ConcBuyApply(i) ==
    LET th == threads[i]
        price == LastClose(th.data)
    IN  /\ th.op = "buy" /\ th.pc = "apply"
        /\ IF InsufficientFunds(price, th.qty, start_capital)
           THEN /\ threads' = Finish(i, 400)
                /\ UNCHANGED <<start_capital, portfolio>>
           ELSE /\ start_capital' = BuyCapital(start_capital, price, th.qty)
                /\ portfolio' = BuyHoldings(portfolio, th.key, th.qty)
                /\ threads' = [threads EXCEPT ![i].pc = "save"]
        /\ UNCHANGED <<file, cache, calls, last>>

\* sell_stock: the share check, then the call of yf.download
ConcSellCheck(i) ==
    /\ threads[i].op = "sell" /\ threads[i].pc = "start"
    /\ IF InsufficientShares(portfolio, threads[i].key, threads[i].qty)
       THEN threads' = Finish(i, 400)
       ELSE threads' = [threads EXCEPT ![i].pc = "download"]
    /\ UNCHANGED <<start_capital, portfolio, file, cache, calls, last>>

\* yf.download returns
ConcSellDownload(i) ==
    /\ threads[i].op = "sell" /\ threads[i].pc = "download"
    /\ \E data \in QuoteSeries :
          threads' = [threads EXCEPT ![i].pc = "apply", ![i].quoted = TRUE, ![i].data = data]
    /\ UNCHANGED <<start_capital, portfolio, file, cache, calls, last>>

\* sell_stock from data["Close"].iloc[-1] to the call of save_portfolio
ConcSellApply(i) ==
    LET th == threads[i]
    IN  /\ th.op = "sell" /\ th.pc = "apply"
        /\ IF IsEmpty(th.data)  \* IndexError
           THEN /\ threads' = Finish(i, 500)
                /\ UNCHANGED <<start_capital, portfolio>>
           ELSE /\ start_capital' = SellCapital(start_capital, LastClose(th.data), th.qty)
                /\ IF th.key \in DOMAIN portfolio
                   THEN /\ portfolio' = SellHoldings(portfolio, th.key, th.qty)
                        /\ threads' = [threads EXCEPT ![i].pc = "save"]
                   ELSE /\ UNCHANGED portfolio  \* KeyError after the credit
                        /\ threads' = Finish(i, 500)
        /\ UNCHANGED <<file, cache, calls, last>>

\* save_portfolio(start_capital, portfolio)
ConcSave(i) ==
    /\ threads[i].pc = "save"
    /\ file' = SavePortfolio(start_capital, portfolio, "ok", file)
    /\ threads' = [threads EXCEPT ![i].pc = "value"]
    /\ UNCHANGED <<start_capital, portfolio, cache, calls, last>>

\* get_current_portfolio_value and the response
ConcRespond(i) ==
    /\ threads[i].pc = "value"
    /\ \E q \in [DOMAIN portfolio -> QuoteSeries] :
          threads' = Finish(i, IF GetCurrentPortfolioValue(portfolio, q).ok THEN 200 ELSE 404)
    /\ UNCHANGED <<start_capital, portfolio, file, cache, calls, last>>

NextConc ==
    \E i \in ThreadIds :
        \/ ConcBuyRead(i)
        \/ ConcBuyApply(i)
        \/ ConcSellCheck(i)
        \/ ConcSellDownload(i)
        \/ ConcSellApply(i)
        \/ ConcSave(i)
        \/ ConcRespond(i)

SpecConc == InitConc /\ [][NextConc]_vars

\* the ledger after one request served alone (buy_stock / sell_stock run from
\* start to end), with the series the request reads
Served(l, th, data) ==
    IF th.op = "buy"
    THEN IF HistoryMissing(th.key, cache)
            \/ InsufficientFunds(LastClose(cache[th.key]), th.qty, l.cap)
         THEN l
         ELSE [cap |-> BuyCapital(l.cap, LastClose(cache[th.key]), th.qty),
               port |-> BuyHoldings(l.port, th.key, th.qty)]
    ELSE IF InsufficientShares(l.port, th.key, th.qty) \/ IsEmpty(data)
         THEN l
         ELSE [cap |-> SellCapital(l.cap, LastClose(data), th.qty),
               port |-> SellHoldings(l.port, th.key, th.qty)]

\* the series a request may read: the one it did read, else any
Readable(th) == IF th.quoted THEN {th.data} ELSE QuoteSeries

(* ------------- the refresh timer of the GUI's event loop ------------- *)

\* runs of update_portfolio_value followed
MaxRuns == 3

\* total_value of a 200 reply of /portfolio-value
GuiTotals == {0} \cup Prices

\* what requests.get gives: a 200 reply, another status, or an exception
\* because the request could not be completed
ValueReplies ==
    {[kind |-> "ok", total |-> v] : v \in GuiTotals}
        \cup {[kind |-> "error", total |-> 0], [kind |-> "unreachable", total |-> 0]}

ReplyKinds == {"ok", "error", "unreachable"}

\* the arrow of portfolio_change_label
Change(total, previous) ==
    IF total > previous THEN "up" ELSE IF total < previous THEN "down" ELSE ""

\* the window: phase is the place of the process (constructor, mainloop, or
\* exited), pc the place inside update_portfolio_value, pending the number of
\* after() callbacks waiting in the event loop
Gui(phase, pc, pending, previous, change, history) ==
    [phase |-> phase, pc |-> pc, pending |-> pending,
     previous_portfolio_value |-> previous, change |-> change, history |-> history]

\* self.after(60000, self.update_portfolio_value), then the return: to the
\* constructor, which returns to app.mainloop(), or to the event loop
Schedule(g) == [g EXCEPT !.phase = "mainloop", !.pc = "idle", !.pending = @ + 1]

\* an exception leaves update_portfolio_value before its last line: out of the
\* constructor it ends the process, out of a callback Tk reports it and the
\* event loop goes on
Raise(g) ==
    [g EXCEPT !.phase = IF @ = "init" THEN "exited" ELSE @, !.pc = "idle"]

\* __init__ up to its last line, the first call of update_portfolio_value
InitGui ==
    /\ start_capital = DefaultCapital
    /\ portfolio = EmptyPortfolio
    /\ file = LedgerRecord(DefaultCapital, EmptyPortfolio)
    /\ cache = NoCache
    /\ last = [op |-> "start", status |-> 200]
    /\ calls = 1
    /\ threads = Gui("init", "value_request", 0, 0, "", <<>>)

\* the reply of GET /portfolio-value and the code up to the second request
GuiValueReply(r) ==
    /\ threads.pc = "value_request"
    /\ threads' =
         IF r.kind = "unreachable" THEN Raise(threads)
         ELSE IF r.kind = "error" THEN Schedule(threads)
         ELSE [threads EXCEPT
                 !.pc = "portfolio_request",
                 !.change = Change(r.total, threads.previous_portfolio_value),
                 !.previous_portfolio_value = r.total]
    /\ last' = [op |-> "portfolio-value", status |-> r.kind]
    /\ UNCHANGED <<start_capital, portfolio, file, cache, calls>>

\* the reply of GET /portfolio, the plot and the rescheduling; plotted is
\* whether plot_portfolio returned (it reads data/{ticker}.csv)
GuiPortfolioReply(kind, plotted) ==
    /\ threads.pc = "portfolio_request"
    /\ threads' =
         IF kind = "unreachable" THEN Raise(threads)
         ELSE IF kind = "error" THEN Schedule(threads)
         ELSE LET g == [threads EXCEPT
                          !.history = Append(@, threads.previous_portfolio_value)]
              IN  IF plotted THEN Schedule(g) ELSE Raise(g)
    /\ last' = [op |-> "portfolio", status |-> kind]
    /\ UNCHANGED <<start_capital, portfolio, file, cache, calls>>

\* the event loop runs a callback that is due
GuiTimer ==
    /\ threads.phase = "mainloop"
    /\ threads.pc = "idle"
    /\ threads.pending > 0
    /\ calls < MaxRuns
    /\ threads' = [threads EXCEPT !.pending = @ - 1, !.pc = "value_request"]
    /\ calls' = calls + 1
    /\ last' = [op |-> "timer", status |-> 200]
    /\ UNCHANGED <<start_capital, portfolio, file, cache>>

\* a Buy or Sell button whose request got a 200: update_portfolio records the
\* total; no button handler calls after()
GuiTrade(total) ==
    /\ threads.phase = "mainloop"
    /\ threads.pc = "idle"
    /\ Len(threads.history) < MaxRuns
    /\ threads' = [threads EXCEPT !.history = Append(@, total)]
    /\ last' = [op |-> "trade", status |-> 200]
    /\ UNCHANGED <<start_capital, portfolio, file, cache, calls>>

NextGui ==
    \/ \E r \in ValueReplies : GuiValueReply(r)
    \/ \E kind \in ReplyKinds, plotted \in BOOLEAN : GuiPortfolioReply(kind, plotted)
    \/ GuiTimer
    \/ \E total \in GuiTotals : GuiTrade(total)

SpecGui == InitGui /\ [][NextGui]_vars

\* refreshes that are waiting in the event loop or running
Refreshes(g) == g.pending + (IF g.pc = "idle" THEN 0 ELSE 1)

(* ------------------------------ claims -------------------------------- *)

IsTrade == last.op \in {"buy", "sell"}

Succeeded == last.status = 200

LedgerUnchanged ==
    /\ start_capital = last.preCap
    /\ portfolio = last.prePort
    /\ file = last.preFile

\* C1: after every buy or sell that returned success, cash (start_capital) >= 0.
C1_CashNonNegative == (IsTrade /\ Succeeded) => start_capital >= 0

\* C2: every holdings entry, in memory and in the persisted record, has a
\* strictly positive quantity.
C2_HoldingsPositive ==
    /\ \A k \in DOMAIN portfolio : portfolio[k] > 0
    /\ \A k \in DOMAIN file.port : file.port[k] > 0

\* C3: a buy or sell with quantity <= 0 is rejected with a failure and changes
\* neither the in-memory ledger nor the persisted record.
C3_NonPositiveQuantityRejected ==
    (IsTrade /\ last.quantity <= 0) => (~Succeeded /\ LedgerUnchanged)

\* C4: a buy or sell that ends in a failure seen by the caller leaves the
\* in-memory ledger and the persisted record as they were before the call.
C4_FailureLeavesLedger == (IsTrade /\ ~Succeeded) => LedgerUnchanged

\* cost of the last buy at the latest cached close
LastBuyCost == LastClose(last.preCache[last.key]) * last.quantity

\* C5: a buy whose cost (latest cached close * quantity) exceeds the cash fails
\* with "Insufficient funds" and leaves cash, holdings and the file unchanged.
C5_InsufficientFundsRejected ==
    (last.op = "buy" /\ last.key \in DOMAIN last.preCache /\ LastBuyCost > last.preCap)
        => /\ last.status = 400
           /\ last.detail = "Insufficient funds"
           /\ LedgerUnchanged

C5_Witness ==
    /\ last.op = "buy"
    /\ last.key \in DOMAIN last.preCache
    /\ LastBuyCost > last.preCap
    /\ LastClose(last.preCache[last.key]) <= last.preCap
    /\ last.detail = "Insufficient funds"

\* C6: a successful buy of q shares of s at cached close p from cash C leaves
\* cash = C - p*q, holdings[s] = old quantity (0 if absent) + q, and every
\* other entry as it was.
C6_BuyConservation ==
    (last.op = "buy" /\ Succeeded)
        => /\ start_capital = last.preCap - LastBuyCost
           /\ last.key \in DOMAIN portfolio
           /\ portfolio[last.key] = Get(last.prePort, last.key) + last.quantity
           /\ \A k \in ((DOMAIN portfolio) \cup (DOMAIN last.prePort)) \ {last.key} :
                 /\ k \in DOMAIN portfolio
                 /\ k \in DOMAIN last.prePort
                 /\ portfolio[k] = last.prePort[k]

C6_Witness ==
    /\ last.op = "buy"
    /\ Succeeded
    /\ last.quantity > 0
    /\ last.key \in DOMAIN last.prePort
    /\ (DOMAIN last.prePort) \ {last.key} # {}
    /\ \A k \in DOMAIN last.prePort : k = Upper(k)

\* C7: a sell of s with s absent from holdings or holdings[s] < q fails with
\* "Insufficient shares", changes nothing and requests no quote.
C7_InsufficientSharesRejected ==
    (last.op = "sell" /\ (last.key \notin DOMAIN last.prePort
                          \/ last.prePort[last.key] < last.quantity))
        => /\ last.status = 400
           /\ last.detail = "Insufficient shares"
           /\ LedgerUnchanged
           /\ cache = last.preCache
           /\ ~last.quoted

C7_Witness ==
    /\ last.op = "sell"
    /\ last.key \in DOMAIN last.prePort
    /\ last.prePort[last.key] > 0
    /\ last.prePort[last.key] < last.quantity
    /\ last.detail = "Insufficient shares"

\* C8: after a successful sell of exactly holdings[s] shares the key s is
\* absent from holdings in memory and in the persisted record.
C8_ZeroEntryRemoved ==
    (last.op = "sell" /\ Succeeded /\ last.key \in DOMAIN last.prePort
       /\ last.prePort[last.key] = last.quantity)
        => /\ last.key \notin DOMAIN portfolio
           /\ file.kind = "object"
           /\ last.key \notin DOMAIN file.port

C8_Witness ==
    /\ last.op = "sell"
    /\ Succeeded
    /\ last.key \in DOMAIN last.prePort
    /\ last.prePort[last.key] = last.quantity
    /\ last.quantity > 0

\* C9: a buy of a symbol without data/<SYMBOL>.csv fails with the "fetch the
\* historical data" failure, fetches nothing and changes nothing.
C9_NotFetchedRejected ==
    (last.op = "buy" /\ last.key \notin DOMAIN last.preCache)
        => /\ last.status = 400
           /\ last.detail = "Please fetch the historical data"
           /\ LedgerUnchanged
           /\ cache = last.preCache
           /\ ~last.quoted

C9_Witness ==
    /\ last.op = "buy"
    /\ last.key \notin DOMAIN last.preCache
    /\ last.quantity > 0
    /\ last.detail = "Please fetch the historical data"

\* C10: buy and sell work on the entry keyed by the upper-cased symbol, and
\* every key of holdings, in memory and persisted, is upper-case.
C10_KeysUpperCase ==
    /\ IsTrade => last.key = Upper(last.key)
    /\ \A k \in (DOMAIN portfolio) \cup (DOMAIN file.port) : k = Upper(k)

\* C11: between calls the persisted record equals the in-memory ledger, so a
\* restart loads exactly the ledger the process held.
C11_WriteThrough ==
    /\ file = LedgerRecord(start_capital, portfolio)
    /\ LoadPortfolio(file, "ok").start_capital = start_capital
    /\ LoadPortfolio(file, "ok").portfolio = portfolio

\* C16: a successful /portfolio-value returns the sum over the held symbols of
\* quantity * latest close, without the cash, and 0 for empty holdings.
C16_ValuationIsSum ==
    (last.op = "portfolio-value" /\ Succeeded)
        => LET term(k) == IF k \in DOMAIN last.prePort
                          THEN last.prePort[k] * last.quotes[k][Len(last.quotes[k])]
                          ELSE 0
           IN  /\ DOMAIN last.prePort \subseteq {<<"A">>, <<"B">>, <<"a">>}
               /\ last.total = term(<<"A">>) + term(<<"B">>) + term(<<"a">>)
               /\ (DOMAIN last.prePort = {} => last.total = 0)

C16_Witness ==
    /\ last.op = "portfolio-value"
    /\ Succeeded
    /\ Cardinality(DOMAIN last.prePort) = 2
    /\ \E k \in DOMAIN last.prePort : last.prePort[k] = 2
    /\ \E j, k \in DOMAIN last.prePort : last.quotes[j] # last.quotes[k]
    /\ last.preCap > 0
    /\ last.total > 0

\* C17: if the download of any one held symbol is empty, /portfolio-value fails
\* and returns no total.
C17_ValuationAllOrNothing ==
    (last.op = "portfolio-value" /\ \E k \in DOMAIN last.quotes : IsEmpty(last.quotes[k]))
        => /\ ~Succeeded
           /\ last.total = 0

C17_Witness ==
    /\ last.op = "portfolio-value"
    /\ ~Succeeded
    /\ \E k \in DOMAIN last.quotes : IsEmpty(last.quotes[k])
    /\ \E k \in DOMAIN last.quotes : ~IsEmpty(last.quotes[k]) /\ last.prePort[k] > 0

\* C18: a sell of a held symbol with enough shares whose quote download is
\* empty fails with the 404 "not found" failure and changes nothing.
C18_SellEmptyQuoteNotFound ==
    (last.op = "sell" /\ last.quoted /\ IsEmpty(last.data))
        => /\ last.status = 404
           /\ LedgerUnchanged

\* C19: a "not found" raised inside the valuation reaches the caller of
\* /portfolio-value as a 404, its own kind, not as a generic failure.
C19_ValuationNotFoundTyped ==
    (last.op = "portfolio-value" /\ \E k \in DOMAIN last.quotes : IsEmpty(last.quotes[k]))
        => last.status = 404

\* C12: whatever portfolio.json holds, load returns a ledger; for a missing or
\* malformed file it is the default ledger and the file holds that default.
C12_LoadNeverFails ==
    (last.op = "load" /\ last.io = "ok")
        => /\ last.status = 200
           /\ (last.preFile.kind # "object"
                 => /\ start_capital = DefaultCapital
                    /\ portfolio = EmptyPortfolio
                    /\ file = LedgerRecord(DefaultCapital, EmptyPortfolio))

\* C13: save(L) followed by load() returns L, for every well-formed ledger L.
C13_SaveLoadRoundTrip ==
    (last.op = "load" /\ last.prev = "save-write" /\ last.prevStatus = 200)
        => /\ last.status = 200
           /\ start_capital = threads.cap
           /\ portfolio = threads.port

C13_Witness ==
    /\ last.op = "load"
    /\ last.prev = "save-write"
    /\ threads.cap = 0
    /\ DOMAIN threads.port # {}
    /\ last.prePort # threads.port
    /\ portfolio = threads.port

C15_SaveAtomicForReaders ==
    (last.op = "load" /\ threads.pc \in {"stopped", "written"}
       /\ threads.old.kind = "object" /\ threads.old.hasCap /\ threads.old.hasPort)
        => /\ last.status = 200
           /\ \/ start_capital = threads.old.cap /\ portfolio = threads.old.port
              \/ start_capital = threads.cap /\ portfolio = threads.port

\* C20: two buy/sell requests never interleave: once both are answered, cash
\* and holdings, in memory and in the file, are what serving the two requests
\* one after the other, in one of the two orders, gives.
C20_OneMutationAtATime ==
    (\A i \in ThreadIds : threads[i].pc = "done")
        => \E i, j \in ThreadIds :
             /\ i # j
             /\ \E di \in Readable(threads[i]), dj \in Readable(threads[j]) :
                  LET l0 == [cap |-> last.preCap, port |-> last.prePort]
                      l2 == Served(Served(l0, threads[i], di), threads[j], dj)
                  IN  /\ start_capital = l2.cap
                      /\ portfolio = l2.port
                      /\ file = LedgerRecord(l2.cap, l2.port)

\* C21: a successful sell of q shares of s credits exactly q times the last
\* close of the series the sell downloaded (not the cached close that buy
\* uses), takes exactly q from the holding of s and leaves every other
\* holding as it was.
C21_SellConservation ==
    (last.op = "sell" /\ Succeeded)
        => /\ last.quoted
           /\ last.key \in DOMAIN last.prePort
           /\ last.prePort[last.key] >= last.quantity
           /\ start_capital = last.preCap + LastClose(last.data) * last.quantity
           /\ Get(portfolio, last.key) = last.prePort[last.key] - last.quantity
           /\ \A k \in ((DOMAIN portfolio) \cup (DOMAIN last.prePort)) \ {last.key} :
                 /\ k \in DOMAIN portfolio
                 /\ k \in DOMAIN last.prePort
                 /\ portfolio[k] = last.prePort[k]

\* a sell of two shares at a live close that is not the cached close, with
\* another symbol held
C21_Witness ==
    /\ last.op = "sell"
    /\ Succeeded
    /\ last.quantity = 2
    /\ last.key \in DOMAIN last.preCache
    /\ LastClose(last.preCache[last.key]) # LastClose(last.data)
    /\ \E k \in DOMAIN portfolio : k # last.key

\* C22: /portfolio and /portfolio-value change nothing, whether they succeed
\* or fail: cash, holdings, the file and the cached bars are what they were
\* before the call; /portfolio answers 200 with the cash and holdings in memory.
C22_ReadsChangeNothing ==
    (last.op \in {"portfolio", "portfolio-value"})
        => /\ LedgerUnchanged
           /\ cache = last.preCache
           /\ (last.op = "portfolio")
                 => /\ Succeeded
                    /\ last.body.remaining_capital = start_capital
                    /\ last.body.portfolio = portfolio

\* /portfolio called on a ledger that a trade has changed
C22_Witness ==
    /\ last.op = "portfolio"
    /\ start_capital # DefaultCapital
    /\ portfolio # EmptyPortfolio
    /\ last.body = [portfolio |-> portfolio, remaining_capital |-> start_capital]

\* C23: once the window is up, exactly one refresh is waiting or running at
\* every moment, whatever the requests of update_portfolio_value gave back
\* (200, another status, or no reply at all).
C23_ExactlyOneRefresh ==
    (threads.phase = "mainloop") => Refreshes(threads) = 1

====
